---- MODULE Spec2Model ----
(***************************************************************************)
(* VideoDub: VideoProcessor.generate_subtitles and what it calls           *)
(* (src/src/videodub/processing.py), with the ProgressTracker and the      *)
(* ConsoleProgressObserver of src/src/videodub/progress/__init__.py.       *)
(*                                                                         *)
(* Two threads: the calling thread, whose position is pc, and the monitor  *)
(* thread started by _extract_audio, whose position is mon_pc.             *)
(*                                                                         *)
(* Units.  Text is a sequence of one-character strings; " " is the only    *)
(* whitespace.  Segment times are whole milliseconds.  File sizes are      *)
(* whole MiB.  Durations are tenths of a second, and progress values are   *)
(* tenths as well (the tracker's total is the estimated time in seconds,   *)
(* the monitor's argument is a percentage; both are kept times ten).       *)
(***************************************************************************)
EXTENDS Integers, Sequences, FiniteSets, TLC

\* ------------------------------------------------------------------ bounds
MaxSegs == 2
MaxTicks == 2
MaxOps == 3

\* --------------------------------------------------------------- constants
\* min(..., 30.0) in _extract_audio, in tenths of a second
EstimateCap == 300
\* update_interval = 0.3 in _monitor_ffmpeg_progress, in tenths of a second
UpdateInterval == 3
\* min(elapsed / estimated_time, 0.9) * 100, in tenths of a percent
MonitorCap == 900

Min(a, b) == IF a <= b THEN a ELSE b

\* -------------------------------------------------------------------- text
RECURSIVE LStrip(_)
LStrip(t) == IF t # <<>> /\ Head(t) = " " THEN LStrip(Tail(t)) ELSE t

RECURSIVE RStrip(_)
RStrip(t) ==
  IF t # <<>> /\ t[Len(t)] = " " THEN RStrip(SubSeq(t, 1, Len(t) - 1)) ELSE t

\* str.strip()
Strip(t) == RStrip(LStrip(t))

\* what the recognizer can put in a segment's text
SrcTexts == { <<>>, <<" ">>, <<" ", "j">> }

\* translation_text of a translator's answer
OutTexts(lang) == { <<>>, <<lang, " ">> }

\* str([]) : the text taken from an answer that is an empty list
EmptyListStr == <<"[", "]">>

\* a segment of the recognizer: the i-th starts at (i-1)*1500 ms
Segment(i, t) == [start |-> (i - 1) * 1500, end |-> (i - 1) * 1500 + 1250, text |-> t]

Transcriptions ==
  UNION { { [i \in 1..n |-> Segment(i, f[i])] : f \in [1..n -> SrcTexts] } : n \in 0..MaxSegs }

\* ------------------------------------------------------------------ inputs
Langs == { "ja", "zh" }
\* os.path.getsize(video_path), in MiB: an empty file, and one whose
\* estimated time (0.6 s) is below the tracker scale of the monitor
FileSizes == { 0, 2 }

TEMP_AUDIO_FILE == "temp_audio.wav"

VARIABLES
  video_exists,            \* os.path.exists(video_path)
  file_size,               \* os.path.getsize(video_path)
  src_lang, tgt_lang, use_en_as_intermediate,
  pc,                      \* the calling thread's position
  exc,                     \* the exception in flight or raised to the caller, "none" if none
  returned,                \* generate_subtitles' return value, <<>> before it returns
  temp_audio,              \* the file at TEMP_AUDIO_FILE: "absent", "stale", "partial", "audio"
  caption,                 \* the caption file [name, entries]; name <<>> if there is none
  total, current,          \* ProgressTracker.total, ProgressTracker.current
  notified,                \* what the ConsoleProgressObserver was sent, in order
  event,                   \* completion_event.is_set()
  mon_pc, mon_k,           \* the monitor thread's position and finished iterations
  transcript,              \* what model.transcribe returned
  segments,                \* result["segments"]
  i,                       \* the loop index of the running translation stage
  src_to_en_translator,    \* the model behind src_to_en_translator, NoModel before
  calls,                   \* external calls made by the run, in order
  exit_status, printed,    \* the command line's exit status (-1 while it runs) and messages
  lock,                    \* the thread holding ProgressTracker._lock, "none" if free
  threads,                 \* where each thread is in ProgressTracker.update, and its locals
  cause,                   \* the __cause__ of the exception in exc, "none" if it has none
  runs                     \* the runs of generate_subtitles that share a working directory

vars == << video_exists, file_size, src_lang, tgt_lang, use_en_as_intermediate,
           pc, exc, returned, temp_audio, caption, total, current, notified,
           event, mon_pc, mon_k, transcript, segments, i, src_to_en_translator,
           calls, exit_status, printed, lock, threads, cause, runs >>

inputs == << video_exists, file_size, src_lang, tgt_lang, use_en_as_intermediate >>
tracker == << total, current, notified >>
monitor == << mon_pc, mon_k >>
pipeline == << transcript, segments, i, src_to_en_translator >>
cli == << exit_status, printed >>
locking == << lock, threads >>

\* the threads that call ProgressTracker.update
Threads == { "main", "monitor" }

\* no command line around the run
NoCli == exit_status = -1 /\ printed = <<>>

\* runs of generate_subtitles going on at the same time in one directory
NumRuns == 2
Runs == 1..NumRuns

\* a run: where it is, whether the file at the audio path is the one it
\* extracted, and what its recognizer was given
Run(at, mine, heard) == [at |-> at, mine |-> mine, heard |-> heard]

\* no such runs: the one run of the other variables
NoRuns == [r \in Runs |-> Run("none", FALSE, "none")]

\* no thread inside ProgressTracker.update
Outside ==
  [t \in Threads |-> [at |-> "out", progress |-> 0, message |-> "", observer |-> 0]]
Unlocked == lock = "none" /\ threads = Outside

\* a translation model, "Helsinki-NLP/opus-mt-{a}-{b}"
OpusMt(a, b) == << a, b >>
NoModel == << "", "" >>

\* an entry of calls: the call, whether it raised, and for a translator its
\* model, the segment index, the text passed and the list it returned
Call(name) ==
  [call |-> name, model |-> NoModel, index |-> 0, text |-> <<>>, raised |-> FALSE,
   answer |-> <<>>]
Outcome(name, ok) == [Call(name) EXCEPT !.raised = ~ok]
Load(m, ok) ==
  [call |-> "pipeline", model |-> m, index |-> 0, text |-> <<>>, raised |-> ~ok,
   answer |-> <<>>]
Translate(m, k, t, a) ==
  [call |-> "translate", model |-> m, index |-> k, text |-> t, raised |-> a.raised,
   answer |-> a.list]

Init ==
  /\ video_exists \in BOOLEAN
  /\ file_size \in (IF video_exists THEN FileSizes ELSE {0})
  /\ src_lang = "ja"
  /\ tgt_lang \in Langs
  /\ use_en_as_intermediate \in (IF src_lang # tgt_lang THEN BOOLEAN ELSE { FALSE })
  /\ pc = "Idle"
  /\ exc = "none"
  /\ returned = <<>>
  /\ temp_audio \in { "absent", "stale" }
  /\ caption = [name |-> <<>>, entries |-> <<>>]
  /\ total = 0 /\ current = 0 /\ notified = <<>>
  /\ event = FALSE
  /\ mon_pc = "none" /\ mon_k = 0
  /\ transcript = <<>> /\ segments = <<>> /\ i = 0
  /\ src_to_en_translator = NoModel
  /\ calls = <<>>
  /\ NoCli /\ Unlocked
  /\ cause = "none" /\ runs = NoRuns

\* ------------------------------------------------- generate_subtitles 45-58
\* Validate without the check of line 46
ValidateUnchecked ==
  /\ pc = "Idle"
  /\ pc' = "LoadModel" /\ exc' = exc
  /\ UNCHANGED << inputs, cli, cause, runs, locking, returned, temp_audio, caption, tracker, event, monitor,
                  pipeline, calls >>

\* if not os.path.exists(video_path): raise FileNotFoundError
Validate ==
  /\ pc = "Idle"
  /\ IF video_exists
       THEN pc' = "LoadModel" /\ exc' = exc
       ELSE pc' = "Failed" /\ exc' = "FileNotFoundError"
  /\ UNCHANGED << inputs, cli, cause, runs, locking, returned, temp_audio, caption, tracker, event, monitor,
                  pipeline, calls >>

\* select_optimal_model(), _select_device(), whisper.load_model(...)
LoadModel ==
  /\ pc = "LoadModel"
  /\ \E ok \in BOOLEAN :
       /\ calls' = calls \o << Call("select_optimal_model"), Outcome("load_model", ok) >>
       /\ IF ok THEN pc' = "ExtractSetup" /\ exc' = exc
                ELSE pc' = "Failed" /\ exc' = "ModelLoadError"
  /\ UNCHANGED << inputs, cli, cause, runs, locking, returned, temp_audio, caption, tracker, event, monitor, pipeline >>

\* ------------------------------------------------------------ TimeEstimator
\* base_time_per_mb = 0.1 seconds, in tenths of a second
BaseTimePerMb == 1
SafetyFactor == 3

\* TimeEstimator.estimate_ffmpeg_extraction_time, in tenths of a second
estimate_ffmpeg_extraction_time(mb_size) == mb_size * BaseTimePerMb * SafetyFactor

\* estimated_time of _extract_audio
estimated_time == Min(estimate_ffmpeg_extraction_time(file_size), EstimateCap)

\* ---------------------------------------------------------- ProgressTracker
Update(value, who) == [kind |-> "update", value |-> value, by |-> who]
Complete(who) == [kind |-> "complete", value |-> total, by |-> who]

\* ProgressTracker.update stores min(progress, self.total)
Clamp(progress) == Min(progress, total)

\* ConsoleProgressObserver._display_progress divides by self.total
DisplayRaises == total = 0

\* ----------------------------------------------------------- _extract_audio
\* the positions of the calling thread inside _extract_audio
ExtractPcs ==
  { "ExtractSetup", "StartMonitor", "FfmpegRun", "SetEvent", "Join", "CompleteUpdate",
    "CompleteNotify", "AfterRun", "FallbackPopen", "MonitorSubprocess", "Communicate",
    "FallbackFinally" }

\* progress_tracker, console_observer and completion_event are locals of
\* _extract_audio that the monitor thread shares: once the call is left and
\* the thread has ended nothing refers to them any more
Unreferenced(main, mon) == main \notin ExtractPcs /\ mon \in { "none", "done" }

Release(main, mon, ev) ==
  IF Unreferenced(main, mon)
    THEN total' = 0 /\ current' = 0 /\ notified' = <<>> /\ event' = FALSE /\ mon_k' = 0
    ELSE event' = ev /\ UNCHANGED << total, current, notified, mon_k >>

\* lines 92-106: the paths, the tracker, the observer, the event
ExtractSetup ==
  /\ pc = "ExtractSetup"
  /\ total' = estimated_time /\ current' = 0 /\ notified' = <<>>
  /\ event' = FALSE
  /\ calls' = Append(calls, Call("getsize"))
  /\ pc' = "StartMonitor"
  /\ UNCHANGED << inputs, cli, cause, runs, locking, exc, returned, temp_audio, caption, monitor, pipeline >>

\* lines 110-128: build the stream, start the monitor thread
StartMonitor ==
  /\ pc = "StartMonitor"
  /\ mon_pc' = "check" /\ mon_k' = 0
  /\ calls' = Append(calls, Call("thread.start"))
  /\ pc' = "FfmpegRun"
  /\ UNCHANGED << inputs, cli, cause, runs, locking, exc, returned, temp_audio, caption, tracker, event, pipeline >>

\* what ffmpeg.run can end with; an empty input file is no media, and a
\* failure other than ffmpeg.Error is the executable that cannot be started
PrimaryOutcomes == IF file_size > 0 THEN { "ok", "ffmpeg.Error", "OSError(ffmpeg)" }
                                    ELSE { "ffmpeg.Error", "OSError(ffmpeg)" }

\* the file a failed ffmpeg leaves at the output path
AfterFailedWrite == { temp_audio, "partial" }

\* lines 131-137: ffmpeg.run(stream, overwrite_output=True, ...)
FfmpegRun ==
  /\ pc = "FfmpegRun"
  /\ \E o \in PrimaryOutcomes :
       /\ exc' = IF o = "ok" THEN "none" ELSE o
       /\ temp_audio' \in CASE o = "ok" -> { "audio" }
                            [] o = "ffmpeg.Error" -> AfterFailedWrite
                            [] OTHER -> { temp_audio }
       /\ calls' = Append(calls, Outcome("ffmpeg.run", o = "ok"))
  /\ pc' = "SetEvent"
  /\ UNCHANGED << inputs, cli, cause, runs, locking, returned, caption, tracker, event, monitor, pipeline >>

\* line 140: completion_event.set()
SetEvent ==
  /\ pc = "SetEvent"
  /\ event' = TRUE
  /\ pc' = "Join"
  /\ UNCHANGED << inputs, cli, cause, runs, locking, exc, returned, temp_audio, caption, tracker, monitor,
                  pipeline, calls >>

\* line 141: monitor_thread.join(timeout=1.0) returns when the thread has
\* ended, or after one second: the 0.3 s sleep takes less, so the thread
\* has then passed its loop check and is held up at its update
JoinReturns == mon_pc \in { "done", "update" }

Join ==
  /\ pc = "Join"
  /\ JoinReturns
  /\ pc' = "CompleteUpdate"
  /\ UNCHANGED << inputs, cli, cause, runs, locking, exc, returned, temp_audio, caption, tracker, event,
                  monitor, pipeline, calls >>

\* line 142, complete() line 94: self.update(self.total), under the lock
CompleteUpdate ==
  /\ pc = "CompleteUpdate"
  /\ current' = Clamp(total)
  /\ IF DisplayRaises
       THEN /\ exc' = "ZeroDivisionError"
            /\ notified' = notified
            /\ pc' = "AfterRun"
       ELSE /\ exc' = exc
            /\ notified' = Append(notified, Update(current', "main"))
            /\ pc' = "CompleteNotify"
  /\ UNCHANGED << inputs, cli, cause, runs, locking, returned, temp_audio, caption, total, event, monitor,
                  pipeline, calls >>

\* complete() lines 95-96: observer.on_complete()
CompleteNotify ==
  /\ pc = "CompleteNotify"
  /\ notified' = Append(notified, Complete("main"))
  /\ pc' = "AfterRun"
  /\ UNCHANGED << inputs, cli, cause, runs, locking, exc, returned, temp_audio, caption, total, current, event,
                  monitor, pipeline, calls >>

\* line 144: except ffmpeg.Error; line 203: return audio_path
AfterRun ==
  /\ pc = "AfterRun"
  /\ CASE exc = "none" -> pc' = "Transcribe" /\ exc' = exc
       [] exc = "ffmpeg.Error" -> pc' = "FallbackPopen" /\ exc' = "none"
       [] OTHER -> pc' = "Failed" /\ exc' = exc
  /\ Release(pc', mon_pc, event)
  /\ UNCHANGED << inputs, cli, cause, runs, locking, returned, temp_audio, caption, mon_pc, pipeline, calls >>

\* FallbackPopen without the checks of lines 172-175
FallbackPopenUnvalidated ==
  /\ pc = "FallbackPopen"
  /\ \E started \in BOOLEAN :
       /\ calls' = Append(calls, Outcome("Popen", started))
       /\ IF started THEN pc' = "MonitorSubprocess" /\ exc' = exc
                     ELSE pc' = "FallbackFinally" /\ exc' = "OSError(ffmpeg)"
  /\ UNCHANGED << inputs, cli, cause, runs, locking, returned, temp_audio, caption, tracker, event, monitor,
                  pipeline >>

\* lines 172-180: validate the paths, then subprocess.Popen(cmd, ...)
\* (audio_path is os.path.abspath(...), so os.path.isabs holds)
FallbackPopen ==
  /\ pc = "FallbackPopen"
  /\ IF ~video_exists
       THEN /\ exc' = "ValueError"
            /\ calls' = calls
            /\ pc' = "FallbackFinally"
       ELSE \E started \in BOOLEAN :
              /\ calls' = Append(calls, Outcome("Popen", started))
              /\ IF started THEN pc' = "MonitorSubprocess" /\ exc' = exc
                            ELSE pc' = "FallbackFinally" /\ exc' = "OSError(ffmpeg)"
  /\ UNCHANGED << inputs, cli, cause, runs, locking, returned, temp_audio, caption, tracker, event, monitor,
                  pipeline >>

\* the synthetic progress of both monitors after elapsed tenths of a second:
\* min(elapsed / estimated_time, 0.9) * 100
Progress(elapsed) == Min((elapsed * 1000) \div estimated_time, MonitorCap)

\* lines 183-185, _monitor_subprocess_progress 473-482, on the calling thread
MonitorSubprocess ==
  /\ pc = "MonitorSubprocess"
  /\ IF event \/ estimated_time = 0
       THEN /\ pc' = "Communicate"
            /\ UNCHANGED << current, notified >>
       ELSE \E elapsed \in { 0, UpdateInterval } : \E polled \in BOOLEAN :
              /\ elapsed < estimated_time
              /\ current' = Clamp(Progress(elapsed))
              /\ notified' = Append(notified, Update(current', "main"))
              /\ pc' = IF polled THEN "Communicate" ELSE pc
  /\ UNCHANGED << inputs, cli, cause, runs, locking, exc, returned, temp_audio, caption, total, event, monitor,
                  pipeline, calls >>

\* lines 187-191: process.communicate(), the return code
Communicate ==
  /\ pc = "Communicate"
  /\ \E returncode \in { 0, 1 } :
       /\ calls' = Append(calls, Outcome("communicate", returncode = 0))
       /\ IF returncode = 0
            THEN temp_audio' = "audio" /\ exc' = exc
            ELSE temp_audio' \in AfterFailedWrite /\ exc' = "CalledProcessError"
  /\ pc' = "FallbackFinally"
  /\ UNCHANGED << inputs, cli, cause, runs, locking, returned, caption, tracker, event, monitor, pipeline >>

\* FallbackFinally with the exception of line 193 swallowed
FallbackFinallySwallowing ==
  /\ pc = "FallbackFinally"
  /\ pc' = "Transcribe" /\ exc' = "none"
  /\ Release(pc', mon_pc, TRUE)
  /\ UNCHANGED << inputs, cli, cause, runs, locking, returned, temp_audio, caption, mon_pc, pipeline, calls >>

\* lines 193-203: except Exception -> RuntimeError; finally the event; return
FallbackFinally ==
  /\ pc = "FallbackFinally"
  /\ IF exc = "none"
       THEN pc' = "Transcribe" /\ exc' = exc /\ cause' = cause
       ELSE pc' = "Failed" /\ exc' = "RuntimeError" /\ cause' = exc
  /\ Release(pc', mon_pc, TRUE)
  /\ UNCHANGED << inputs, cli, runs, locking, returned, temp_audio, caption, mon_pc, pipeline, calls >>

\* ------------------------------------------------ _monitor_ffmpeg_progress
\* MonCheck with a loop condition that does not look at completion_event
MonCheckIgnoringEvent ==
  /\ mon_pc = "check"
  /\ IF mon_k * UpdateInterval < estimated_time
       THEN /\ mon_k < MaxTicks /\ mon_pc' = "update"
            /\ UNCHANGED << tracker, event, mon_k >>
       ELSE /\ mon_pc' = "done"
            /\ Release(pc, mon_pc', event)
  /\ UNCHANGED << inputs, cli, cause, runs, locking, pc, exc, returned, temp_audio, caption, pipeline, calls >>

\* lines 450-452: the loop condition, mon_k sleeps after the start
MonCheck ==
  /\ mon_pc = "check"
  /\ IF ~event /\ mon_k * UpdateInterval < estimated_time
       THEN /\ mon_k < MaxTicks /\ mon_pc' = "update"
            /\ UNCHANGED << tracker, event, mon_k >>
       ELSE /\ mon_pc' = "done"
            /\ Release(pc, mon_pc', event)
  /\ UNCHANGED << inputs, cli, cause, runs, locking, pc, exc, returned, temp_audio, caption, pipeline, calls >>

\* lines 453-458: progress_tracker.update(progress, ...), then the sleep
MonUpdate ==
  /\ mon_pc = "update"
  /\ current' = Clamp(Progress(mon_k * UpdateInterval))
  /\ notified' = Append(notified, Update(current', "monitor"))
  /\ mon_k' = mon_k + 1
  /\ mon_pc' = "check"
  /\ UNCHANGED << inputs, cli, cause, runs, locking, pc, exc, returned, temp_audio, caption, total, event,
                  pipeline, calls >>

\* ------------------------------------------------ _transcribe_and_translate
\* AfterDirect with the two branches of line 249 exchanged
AfterDirectExchanged(success) ==
  IF success THEN "Serialize"
  ELSE IF use_en_as_intermediate THEN "ToEnglish" ELSE "ViaEnglish"

\* AfterDirect without the else branch of lines 252-254
AfterDirectWithoutElse(success) ==
  IF success THEN "Serialize"
  ELSE IF use_en_as_intermediate THEN "ViaEnglish" ELSE "Serialize"

\* AfterDirect going on to the English routes whatever the direct attempt
\* returned
AfterDirectIgnoringSuccess(success) ==
  IF use_en_as_intermediate THEN "ViaEnglish" ELSE "ToEnglish"

\* lines 245-256 of _translate_segments: where the chain goes after
\* _attempt_direct_translation returned success
AfterDirect(success) ==
  IF success THEN "Serialize"
  ELSE IF use_en_as_intermediate THEN "ViaEnglish" ELSE "ToEnglish"

\* AfterTranscribe without the comparison of line 227
AfterTranscribeAlways == "DirectLoad"

\* lines 227-232: translate only if the languages differ
AfterTranscribe == IF src_lang # tgt_lang THEN "DirectLoad" ELSE "Serialize"

\* TranscribeCall with Whisper's other task
TranscribeCallTranslating(ok) ==
  [Outcome("transcribe", ok) EXCEPT !.text = << src_lang, "translate" >>]

\* lines 218-225: the keyword arguments language and task of model.transcribe
TranscribeCall(ok) ==
  [Outcome("transcribe", ok) EXCEPT !.text = << src_lang, "transcribe" >>]

\* line 225: model.transcribe(audio_path, **transcribe_kwargs)
Transcribe ==
  /\ pc = "Transcribe"
  /\ \/ /\ transcript' \in Transcriptions
        /\ segments' = transcript'
        /\ calls' = Append(calls, TranscribeCall(TRUE))
        /\ pc' = AfterTranscribe
        /\ exc' = exc
     \/ /\ UNCHANGED << transcript, segments >>
        /\ calls' = Append(calls, TranscribeCall(FALSE))
        /\ pc' = "Cleanup"
        /\ exc' = "TranscriptionError"
  /\ UNCHANGED << inputs, cli, cause, runs, locking, returned, temp_audio, caption, tracker, event, monitor, i,
                  src_to_en_translator >>

\* -------------------------------------------------------------- translators
\* what one translator call can do: raise, or return a list of translations
\* (empty, or one translation_text)
Answers(lang) ==
  { [raised |-> TRUE, list |-> <<>>], [raised |-> FALSE, list |-> <<>>] }
    \cup { [raised |-> FALSE, list |-> << t >>] : t \in OutTexts(lang) }

\* translation[0]["translation_text"] if the list is not empty else str(translation)
TranslatedText(list) == IF Len(list) > 0 THEN list[1] ELSE EmptyListStr

\* SetText putting a new segment that holds only the text in place of the old
SetTextOnly(k, t) == [segments EXCEPT ![k] = [start |-> 0, end |-> 0, text |-> t]]

\* result["segments"][k]["text"] = t
SetText(k, t) == [segments EXCEPT ![k].text = t]

\* TranslateOne with the assignment of the text moved out of the try block,
\* so that a failed call stores an empty text
TranslateOneLosingText(m, lang) ==
  LET original_text == Strip(segments[i].text) IN
  IF original_text # <<>>
    THEN \E a \in Answers(lang) :
           /\ calls' = Append(calls, Translate(m, i, original_text, a))
           /\ segments' = IF a.raised THEN SetText(i, <<>>)
                          ELSE SetText(i, TranslatedText(a.list))
    ELSE UNCHANGED << segments, calls >>

\* TranslateOne without the test of line 269, `if original_text:`
TranslateOneUnguarded(m, lang) ==
  LET original_text == Strip(segments[i].text) IN
  \E a \in Answers(lang) :
    /\ calls' = Append(calls, Translate(m, i, original_text, a))
    /\ segments' = IF a.raised THEN segments
                   ELSE SetText(i, TranslatedText(a.list))

\* one iteration of a one-translator loop (lines 267-282, 312-329, 390-405)
TranslateOne(m, lang) ==
  LET original_text == Strip(segments[i].text) IN
  IF original_text # <<>>
    THEN \E a \in Answers(lang) :
           /\ calls' = Append(calls, Translate(m, i, original_text, a))
           /\ segments' = IF a.raised THEN segments
                          ELSE SetText(i, TranslatedText(a.list))
    ELSE UNCHANGED << segments, calls >>

\* ----------------------------------------------- _attempt_direct_translation
\* lines 264-265: pipeline("translation", model=direct_model); 285-287 if it raises
DirectLoad ==
  /\ pc = "DirectLoad"
  /\ \E ok \in BOOLEAN :
       /\ calls' = Append(calls, Load(OpusMt(src_lang, tgt_lang), ok))
       /\ IF ok THEN pc' = "DirectLoop" /\ i' = 1
                ELSE pc' = AfterDirect(FALSE) /\ i' = i
  /\ UNCHANGED << inputs, cli, cause, runs, locking, exc, returned, temp_audio, caption, tracker, event, monitor,
                  transcript, segments, src_to_en_translator >>

\* lines 267-283: the loop over the segments, return True at its end
DirectLoop ==
  /\ pc = "DirectLoop"
  /\ IF i <= Len(segments)
       THEN /\ TranslateOne(OpusMt(src_lang, tgt_lang), tgt_lang)
            /\ i' = i + 1
            /\ pc' = pc
       ELSE /\ pc' = AfterDirect(TRUE)
            /\ UNCHANGED << segments, calls, i >>
  /\ UNCHANGED << inputs, cli, cause, runs, locking, exc, returned, temp_audio, caption, tracker, event, monitor,
                  transcript, src_to_en_translator >>

\* ------------------------------------------ loading a source-to-English model
\* lines 292-310 and 340-349: opus-mt-{src}-en, and opus-mt-mul-en in the
\* except clause, whose own failure is not caught
LoadSrcToEnGenericFirst(stage, next) ==
  \E ok1 \in BOOLEAN :
    IF ok1
      THEN /\ calls' = calls \o << Call(stage), Load(OpusMt("mul", "en"), TRUE) >>
           /\ src_to_en_translator' = OpusMt("mul", "en")
           /\ pc' = next /\ exc' = exc
      ELSE \E ok2 \in BOOLEAN :
           /\ calls' = calls \o << Call(stage), Load(OpusMt("mul", "en"), FALSE),
                                    Load(OpusMt(src_lang, "en"), ok2) >>
           /\ IF ok2
                THEN /\ src_to_en_translator' = OpusMt(src_lang, "en")
                     /\ pc' = next /\ exc' = exc
                ELSE /\ src_to_en_translator' = src_to_en_translator
                     /\ pc' = "Cleanup" /\ exc' = "TranslatorLoadError"

LoadSrcToEn(stage, next) ==
  \E ok1 \in BOOLEAN :
    IF ok1
      THEN /\ calls' = calls \o << Call(stage), Load(OpusMt(src_lang, "en"), TRUE) >>
           /\ src_to_en_translator' = OpusMt(src_lang, "en")
           /\ pc' = next /\ exc' = exc
      ELSE \E ok2 \in BOOLEAN :
           /\ calls' = calls \o << Call(stage), Load(OpusMt(src_lang, "en"), FALSE),
                                    Load(OpusMt("mul", "en"), ok2) >>
           /\ IF ok2
                THEN /\ src_to_en_translator' = OpusMt("mul", "en")
                     /\ pc' = next /\ exc' = exc
                ELSE /\ src_to_en_translator' = src_to_en_translator
                     /\ pc' = "Cleanup" /\ exc' = "TranslatorLoadError"

\* ---------------------------------------------------- _translate_to_english
\* lines 291-310
ToEnglishLoad ==
  /\ pc = "ToEnglish"
  /\ LoadSrcToEn("_translate_to_english", "ToEnglishLoop")
  /\ i' = 1
  /\ UNCHANGED << inputs, cli, cause, runs, locking, returned, temp_audio, caption, tracker, event, monitor,
                  transcript, segments >>

\* lines 312-331
ToEnglishLoop ==
  /\ pc = "ToEnglishLoop"
  /\ IF i <= Len(segments)
       THEN /\ TranslateOne(src_to_en_translator, "en")
            /\ i' = i + 1
            /\ pc' = pc
       ELSE /\ pc' = "Serialize"
            /\ UNCHANGED << segments, calls, i >>
  /\ UNCHANGED << inputs, cli, cause, runs, locking, exc, returned, temp_audio, caption, tracker, event, monitor,
                  transcript, src_to_en_translator >>

\* --------------------------------------------------- _translate_via_english
\* lines 337-349
ViaEnglishLoadSrc ==
  /\ pc = "ViaEnglish"
  /\ LoadSrcToEn("_translate_via_english", "ViaEnglishLoadTgt")
  /\ UNCHANGED << inputs, cli, cause, runs, locking, returned, temp_audio, caption, tracker, event, monitor,
                  transcript, segments, i >>

\* ViaEnglishLoadTgt without the except clause of line 388
ViaEnglishLoadTgtUncaught ==
  /\ pc = "ViaEnglishLoadTgt"
  /\ \E ok \in BOOLEAN :
       /\ calls' = Append(calls, Load(OpusMt("en", tgt_lang), ok))
       /\ IF ok THEN pc' = "TwoStepLoop" /\ exc' = exc
                ELSE pc' = "Cleanup" /\ exc' = "TranslatorLoadError"
  /\ i' = 1
  /\ UNCHANGED << inputs, cli, cause, runs, locking, returned, temp_audio, caption, tracker, event, monitor,
                  transcript, segments, src_to_en_translator >>

\* lines 352-356: opus-mt-en-{tgt}; line 388 if it raises
ViaEnglishLoadTgt ==
  /\ pc = "ViaEnglishLoadTgt"
  /\ \E ok \in BOOLEAN :
       /\ calls' = Append(calls, Load(OpusMt("en", tgt_lang), ok))
       /\ pc' = IF ok THEN "TwoStepLoop" ELSE "SourceToEnglishLoop"
  /\ i' = 1
  /\ UNCHANGED << inputs, cli, cause, runs, locking, exc, returned, temp_audio, caption, tracker, event, monitor,
                  transcript, segments, src_to_en_translator >>

\* TranslateTwoStep with the English text stored as soon as the first
\* step has answered
TranslateTwoStepKeepingEnglish ==
  LET original_text == Strip(segments[i].text) IN
  IF original_text # <<>>
    THEN \E a1 \in Answers("en") :
           LET step1 == Translate(src_to_en_translator, i, original_text, a1)
               en_text == TranslatedText(a1.list) IN
           IF a1.raised
             THEN /\ calls' = Append(calls, step1)
                  /\ segments' = segments
             ELSE \E a2 \in Answers(tgt_lang) :
                    /\ calls' = calls \o
                         << step1, Translate(OpusMt("en", tgt_lang), i, en_text, a2) >>
                    /\ segments' = IF a2.raised THEN SetText(i, en_text)
                                   ELSE SetText(i, TranslatedText(a2.list))
    ELSE UNCHANGED << segments, calls >>

\* one iteration of lines 359-386: source -> English, then English -> target
TranslateTwoStep ==
  LET original_text == Strip(segments[i].text) IN
  IF original_text # <<>>
    THEN \E a1 \in Answers("en") :
           LET step1 == Translate(src_to_en_translator, i, original_text, a1)
               en_text == TranslatedText(a1.list) IN
           IF a1.raised
             THEN /\ calls' = Append(calls, step1)
                  /\ segments' = segments
             ELSE \E a2 \in Answers(tgt_lang) :
                    /\ calls' = calls \o
                         << step1, Translate(OpusMt("en", tgt_lang), i, en_text, a2) >>
                    /\ segments' = IF a2.raised THEN segments
                                   ELSE SetText(i, TranslatedText(a2.list))
    ELSE UNCHANGED << segments, calls >>

TwoStepLoop ==
  /\ pc = "TwoStepLoop"
  /\ IF i <= Len(segments)
       THEN /\ TranslateTwoStep
            /\ i' = i + 1
            /\ pc' = pc
       ELSE /\ pc' = "Serialize"
            /\ UNCHANGED << segments, calls, i >>
  /\ UNCHANGED << inputs, cli, cause, runs, locking, exc, returned, temp_audio, caption, tracker, event, monitor,
                  transcript, src_to_en_translator >>

\* lines 388-405: source -> English only
SourceToEnglishLoop ==
  /\ pc = "SourceToEnglishLoop"
  /\ IF i <= Len(segments)
       THEN /\ TranslateOne(src_to_en_translator, "en")
            /\ i' = i + 1
            /\ pc' = pc
       ELSE /\ pc' = "Serialize"
            /\ UNCHANGED << segments, calls, i >>
  /\ UNCHANGED << inputs, cli, cause, runs, locking, exc, returned, temp_audio, caption, tracker, event, monitor,
                  transcript, src_to_en_translator >>

\* ---------------------------------------------------- _generate_subtitle_file
\* A time is given in whole milliseconds ms and stands for the float that
\* Python has for ms / 1000 seconds, the IEEE double nearest to it.

RECURSIVE FloorLog2(_)
FloorLog2(n) == IF n < 2 THEN 0 ELSE 1 + FloorLog2(n \div 2)

RECURSIVE ScaleUp(_)
ScaleUp(ms) == IF ms >= 1000 THEN 0 ELSE 1 + ScaleUp(2 * ms)

\* the binary exponent e of the float: 2^e <= ms / 1000 < 2^(e+1), ms > 0
BinaryExponent(ms) == IF ms >= 1000 THEN FloorLog2(ms \div 1000) ELSE 0 - ScaleUp(ms)

\* 2^k modulo 1000
RECURSIVE PowMod(_)
PowMod(k) == IF k = 0 THEN 1 ELSE (2 * PowMod(k - 1)) % 1000

\* int((seconds - int(seconds)) * 1000) in double arithmetic.  With
\* r = ms mod 1000 and K = 2^(52-e), the fraction seconds - int(seconds) is
\* exactly round(r*K/1000) / K; it lies below r/1000 when x = r*K mod 1000
\* is in 1..499, by x/(1000*K).  The product with 1000 is then r - x/K
\* rounded to a double, which is r itself unless x/K exceeds half the gap
\* between r and the double below it (2^(g-52), halved when r is 2^g), and
\* int() of a value below r is r - 1.
FloatMillis(ms) ==
  LET r == ms % 1000
      e == BinaryExponent(ms)
      x == (r * PowMod(52 - e)) % 1000
      g == FloorLog2(r)
      sh == e + 1 - g + (IF r = 2^g THEN 1 ELSE 0)
      below == IF sh >= 0 THEN x * 2^sh > 1 ELSE x > 2^(0 - sh)
  IN IF r = 0 \/ x = 0 \/ x >= 500 THEN r
     ELSE IF below THEN r - 1 ELSE r

Digit(d) == << "0", "1", "2", "3", "4", "5", "6", "7", "8", "9" >>[d + 1]

\* the decimal digits of n
RECURSIVE Decimal(_)
Decimal(n) == IF n < 10 THEN << Digit(n) >> ELSE Append(Decimal(n \div 10), Digit(n % 10))

\* f"{n:0{width}d}"
RECURSIVE Padded(_, _)
Padded(n, width) ==
  IF Len(Decimal(n)) >= width THEN Decimal(n)
  ELSE << "0" >> \o Padded(n, width - 1)

\* _format_timestamp(seconds), and format_timestamp of process_video.py
\* which has the same body: hours, minutes and secs come from the floor
\* division and the remainder of the float, which are exact
_format_timestamp(ms) ==
  LET secs == ms \div 1000 IN
  Padded(secs \div 3600, 2) \o << ":" >> \o Padded((secs % 3600) \div 60, 2) \o << ":" >>
    \o Padded(secs % 60, 2) \o << "," >> \o Padded(FloatMillis(ms), 3)

\* Entries numbered as enumerate() does without its second argument
EntriesFromZero(segs) ==
  [k \in 1..Len(segs) |->
     [index |-> k - 1, start |-> _format_timestamp(segs[k].start),
      end |-> _format_timestamp(segs[k].end), text |-> Strip(segs[k].text)]]

\* lines 418-427: the numbered entries
Entries(segs) ==
  [k \in 1..Len(segs) |->
     [index |-> k, start |-> _format_timestamp(segs[k].start),
      end |-> _format_timestamp(segs[k].end), text |-> Strip(segs[k].text)]]

\* line 415: {video_name}_{tgt_lang}.srt beside the video
output_srt_path == << "video", tgt_lang, "srt" >>

\* lines 413-430; open() or a write can fail
Serialize ==
  /\ pc = "Serialize"
  /\ \/ /\ caption' = [name |-> output_srt_path, entries |-> Entries(segments)]
        /\ calls' = Append(calls, Call("open"))
        /\ exc' = exc
     \/ /\ caption' = caption
        /\ calls' = Append(calls, Outcome("open", FALSE))
        /\ exc' = "OSError(open)"
  /\ pc' = "Cleanup"
  /\ UNCHANGED << inputs, cli, cause, runs, locking, returned, temp_audio, tracker, event, monitor, pipeline >>

\* ------------------------------------------------ generate_subtitles 73-78
\* Cleanup as a plain statement after line 71 instead of a finally clause
CleanupWithoutFinally ==
  /\ pc = "Cleanup"
  /\ IF temp_audio # "absent" /\ exc = "none"
       THEN temp_audio' = "absent" /\ calls' = Append(calls, Call("remove"))
       ELSE UNCHANGED << temp_audio, calls >>
  /\ IF exc = "none"
       THEN pc' = "Done" /\ returned' = output_srt_path
       ELSE pc' = "Failed" /\ returned' = returned
  /\ UNCHANGED << inputs, cli, cause, runs, locking, exc, caption, tracker, event, monitor, pipeline >>

\* finally: if os.path.exists(audio_path): os.remove(audio_path); then the
\* return of line 73 or the exception goes on
Cleanup ==
  /\ pc = "Cleanup"
  /\ IF temp_audio # "absent"
       THEN temp_audio' = "absent" /\ calls' = Append(calls, Call("remove"))
       ELSE UNCHANGED << temp_audio, calls >>
  /\ IF exc = "none"
       THEN pc' = "Done" /\ returned' = output_srt_path
       ELSE pc' = "Failed" /\ returned' = returned
  /\ UNCHANGED << inputs, cli, cause, runs, locking, exc, caption, tracker, event, monitor, pipeline >>

Next ==
  \/ Validate \/ LoadModel
  \/ ExtractSetup \/ StartMonitor \/ FfmpegRun \/ SetEvent \/ Join
  \/ CompleteUpdate \/ CompleteNotify \/ AfterRun
  \/ FallbackPopen \/ MonitorSubprocess \/ Communicate \/ FallbackFinally
  \/ MonCheck \/ MonUpdate
  \/ Transcribe
  \/ DirectLoad \/ DirectLoop
  \/ ToEnglishLoad \/ ToEnglishLoop
  \/ ViaEnglishLoadSrc \/ ViaEnglishLoadTgt \/ TwoStepLoop \/ SourceToEnglishLoop
  \/ Serialize \/ Cleanup

Spec == Init /\ [][Next]_vars

\* -------------------------------------------------------------- cli.main
\* what main prints: the stream and the words
Message(stream, words) == [stream |-> stream, text |-> words]

\* the state in which main() has parsed its arguments (line 55)
InitCli ==
  /\ video_exists \in BOOLEAN
  /\ file_size \in (IF video_exists THEN FileSizes ELSE {0})
  /\ src_lang = "ja"
  /\ tgt_lang \in Langs
  /\ use_en_as_intermediate \in (IF src_lang # tgt_lang THEN BOOLEAN ELSE { FALSE })
  /\ pc = "Cli"
  /\ exc = "none"
  /\ returned = <<>>
  /\ temp_audio \in { "absent", "stale" }
  /\ caption = [name |-> <<>>, entries |-> <<>>]
  /\ total = 0 /\ current = 0 /\ notified = <<>>
  /\ event = FALSE
  /\ mon_pc = "none" /\ mon_k = 0
  /\ transcript = <<>> /\ segments = <<>> /\ i = 0
  /\ src_to_en_translator = NoModel
  /\ calls = <<>>
  /\ NoCli /\ Unlocked
  /\ cause = "none" /\ runs = NoRuns

\* lines 58-60: the video file is looked for before generate_subtitles is called
CliValidate ==
  /\ pc = "Cli"
  /\ IF video_exists
       THEN pc' = "Idle" /\ UNCHANGED cli
       ELSE /\ pc' = "Exit"
            /\ printed' = Append(printed, Message("stderr", << "Error", "not found" >>))
            /\ exit_status' = 1
  /\ UNCHANGED << inputs, cause, runs, locking, exc, returned, temp_audio, caption, tracker, event,
                  monitor, pipeline, calls >>

\* CliFinish with an except clause that prints the error and goes on
CliFinishWithoutExit ==
  /\ pc \in { "Done", "Failed" }
  /\ IF pc = "Done"
       THEN printed' = Append(printed, Message("stdout", << "Success" >> \o returned))
       ELSE printed' = Append(printed, Message("stderr", << "Error", exc >>))
  /\ exit_status' = 0
  /\ pc' = "Exit"
  /\ UNCHANGED << inputs, cause, runs, locking, exc, returned, temp_audio, caption, tracker, event,
                  monitor, pipeline, calls >>

\* lines 62-74: the success message after generate_subtitles has returned;
\* except Exception: the error message and sys.exit(1)
CliFinish ==
  /\ pc \in { "Done", "Failed" }
  /\ IF pc = "Done"
       THEN /\ printed' = Append(printed, Message("stdout", << "Success" >> \o returned))
            /\ exit_status' = 0
       ELSE /\ printed' = Append(printed, Message("stderr", << "Error", exc >>))
            /\ exit_status' = 1
  /\ pc' = "Exit"
  /\ UNCHANGED << inputs, cause, runs, locking, exc, returned, temp_audio, caption, tracker, event,
                  monitor, pipeline, calls >>

NextCli == CliValidate \/ Next \/ CliFinish

CliSpec == InitCli /\ [][NextCli]_vars

\* ------------------------------------------------------ _extract_audio alone
\* file sizes for a call of _extract_audio: those of the runs, and one whose
\* estimate (60 s) is above the cap of 30 s
ExtractFileSizes == FileSizes \cup { 200 }

\* the state in which _extract_audio(video_path) is entered
InitExtract ==
  /\ video_exists = TRUE /\ file_size \in ExtractFileSizes
  /\ src_lang = "ja" /\ tgt_lang = "ja" /\ use_en_as_intermediate = FALSE
  /\ pc = "ExtractSetup"
  /\ exc = "none"
  /\ returned = <<>>
  /\ temp_audio \in { "absent", "stale" }
  /\ caption = [name |-> <<>>, entries |-> <<>>]
  /\ total = 0 /\ current = 0 /\ notified = <<>>
  /\ event = FALSE
  /\ mon_pc = "none" /\ mon_k = 0
  /\ transcript = <<>> /\ segments = <<>> /\ i = 0
  /\ src_to_en_translator = NoModel
  /\ calls = <<>>
  /\ NoCli /\ Unlocked
  /\ cause = "none" /\ runs = NoRuns

NextExtract ==
  \/ ExtractSetup \/ StartMonitor \/ FfmpegRun \/ SetEvent \/ Join
  \/ CompleteUpdate \/ CompleteNotify \/ AfterRun
  \/ FallbackPopen \/ MonitorSubprocess \/ Communicate \/ FallbackFinally
  \/ MonCheck \/ MonUpdate

ExtractSpec == InitExtract /\ [][NextExtract]_vars

\* the monitor is a thread of its own: the interpreter goes on running it
\* whatever the calling thread does
FairExtractSpec == ExtractSpec /\ WF_vars(MonCheck) /\ WF_vars(MonUpdate)

\* ------------------------- _extract_audio alone, the video file not kept
\* Another process removes the video file once _extract_audio has read its
\* size: os.path.exists(video_path) of line 172 then answers False.
VideoRemoved ==
  /\ pc \in ExtractPcs \ { "ExtractSetup" } /\ video_exists
  /\ video_exists' = FALSE
  /\ UNCHANGED << file_size, src_lang, tgt_lang, use_en_as_intermediate, cli, cause, runs, locking,
                  pc, exc, returned, temp_audio, caption, tracker, event, monitor, pipeline,
                  calls >>

NextRemoval == NextExtract \/ VideoRemoved

RemovalSpec == InitExtract /\ [][NextRemoval]_vars

\* --------------------------------- generate_subtitles, runs side by side
\* NumRuns calls of generate_subtitles at the same time, each on a video of
\* its own, in one working directory: os.path.abspath(TEMP_AUDIO_FILE) is
\* the same path for all of them. Each run goes through the stages of
\* generate_subtitles, a stage a step; temp_audio is the file at that path.
InitRuns ==
  /\ video_exists = TRUE /\ file_size = 2
  /\ src_lang = "ja" /\ tgt_lang = "ja" /\ use_en_as_intermediate = FALSE
  /\ pc = "Runs"
  /\ exc = "none"
  /\ returned = <<>>
  /\ temp_audio \in { "absent", "stale" }
  /\ caption = [name |-> <<>>, entries |-> <<>>]
  /\ total = 0 /\ current = 0 /\ notified = <<>>
  /\ event = FALSE
  /\ mon_pc = "none" /\ mon_k = 0
  /\ transcript = <<>> /\ segments = <<>> /\ i = 0
  /\ src_to_en_translator = NoModel
  /\ calls = <<>>
  /\ NoCli /\ Unlocked
  /\ cause = "none" /\ runs = [r \in Runs |-> Run("Idle", FALSE, "none")]

\* the file at the audio path is written or removed by run r: it is no
\* other run's extracted audio any more
Overwritten(r, mine) ==
  [q \in Runs |-> IF q = r THEN [runs[q] EXCEPT !.mine = mine]
                           ELSE [runs[q] EXCEPT !.mine = FALSE]]

At(rs, r, at) == [rs EXCEPT ![r].at = at]

\* lines 45-58: the checks and the loading of the recognizer
RunLoad(r) ==
  /\ runs[r].at = "Idle"
  /\ \E ok \in BOOLEAN : runs' = At(runs, r, IF ok THEN "Extract" ELSE "Failed")
  /\ UNCHANGED << inputs, cli, cause, locking, pc, exc, returned, temp_audio, caption, tracker,
                  event, monitor, pipeline, calls >>

\* line 62: _extract_audio, ffmpeg -y writing to the audio path; an
\* exception leaves generate_subtitles before its try
RunExtract(r) ==
  /\ runs[r].at = "Extract"
  /\ \/ /\ temp_audio' = "audio"
        /\ runs' = At(Overwritten(r, TRUE), r, "Transcribe")
     \/ /\ temp_audio' \in AfterFailedWrite
        /\ runs' = At(IF temp_audio' = temp_audio THEN runs ELSE Overwritten(r, FALSE), r, "Failed")
  /\ UNCHANGED << inputs, cli, cause, locking, pc, exc, returned, caption, tracker,
                  event, monitor, pipeline, calls >>

\* line 66, 225: model.transcribe(audio_path, ...) reads the file now at
\* the path, and raises when there is none
RunTranscribe(r) ==
  /\ runs[r].at = "Transcribe"
  /\ LET heard == IF temp_audio = "absent" THEN "missing"
                  ELSE IF runs[r].mine THEN "own" ELSE "other"
     IN \E ok \in BOOLEAN :
          runs' = [runs EXCEPT ![r].heard = heard,
                               ![r].at = IF ok /\ heard # "missing" THEN "Serialize"
                                         ELSE "CleanupRaising"]
  /\ UNCHANGED << inputs, cli, cause, locking, pc, exc, returned, temp_audio, caption, tracker,
                  event, monitor, pipeline, calls >>

\* lines 66-71: the translation and the caption file
RunSerialize(r) ==
  /\ runs[r].at = "Serialize"
  /\ \E ok \in BOOLEAN : runs' = At(runs, r, IF ok THEN "Cleanup" ELSE "CleanupRaising")
  /\ UNCHANGED << inputs, cli, cause, locking, pc, exc, returned, temp_audio, caption, tracker,
                  event, monitor, pipeline, calls >>

\* lines 75-78: if os.path.exists(audio_path): os.remove(audio_path)
RunCleanup(r) ==
  /\ runs[r].at \in { "Cleanup", "CleanupRaising" }
  /\ temp_audio' = "absent"
  /\ runs' = At(IF temp_audio = "absent" THEN runs ELSE Overwritten(r, FALSE), r,
                IF runs[r].at = "Cleanup" THEN "Done" ELSE "Failed")
  /\ UNCHANGED << inputs, cli, cause, locking, pc, exc, returned, caption, tracker,
                  event, monitor, pipeline, calls >>

NextRuns ==
  \E r \in Runs :
    \/ RunLoad(r)
    \/ RunExtract(r)
    \/ RunTranscribe(r)
    \/ RunSerialize(r)
    \/ RunCleanup(r)

RunsSpec == InitRuns /\ [][NextRuns]_vars

\* ------------------------------------------- _generate_subtitle_file alone
\* start times of the segments handed to _generate_subtitle_file
Times == { 0, 1000, 1001, 1500, 60000, 61250, 3599999, 3600000, 360000000 }

\* end - start of these segments
SegmentLength == 1250

\* result["segments"] of a direct call: any texts, any of the start times
SubtitleInputs ==
  UNION { [1..n -> { [start |-> t, end |-> t + SegmentLength, text |-> x] :
                       t \in Times, x \in SrcTexts }] : n \in 0..MaxSegs }

\* the state in which _generate_subtitle_file(video_path, result, tgt_lang)
\* is entered with result["segments"] from SubtitleInputs
InitSubtitle ==
  /\ video_exists = TRUE /\ file_size = 2
  /\ src_lang = "ja" /\ tgt_lang \in Langs /\ use_en_as_intermediate = FALSE
  /\ pc = "Serialize"
  /\ exc = "none"
  /\ returned = <<>>
  /\ temp_audio = "audio"
  /\ caption = [name |-> <<>>, entries |-> <<>>]
  /\ total = 0 /\ current = 0 /\ notified = <<>>
  /\ event = FALSE
  /\ mon_pc = "none" /\ mon_k = 0
  /\ segments \in SubtitleInputs /\ transcript = segments /\ i = 0
  /\ src_to_en_translator = NoModel
  /\ calls = <<>>
  /\ NoCli /\ Unlocked
  /\ cause = "none" /\ runs = NoRuns

NextSubtitle == Serialize

SubtitleSpec == InitSubtitle /\ [][NextSubtitle]_vars

\* ---------------------------------------------------- ProgressTracker alone
\* One thread calling update, increment and complete, in any order and with
\* any arguments, on a tracker built as _extract_audio builds it: one
\* ConsoleProgressObserver with the tracker's total.
TrackerTotals == { 0, 5 }
Progresses == { -1, 0, 3, 5, 7 }
Amounts == { -1, 1 }

\* an entry of calls for a call of the tracker: index is its argument
TrackerCall(name, arg, ok) == [Outcome(name, ok) EXCEPT !.index = arg]

InitTracker ==
  /\ video_exists = FALSE /\ file_size = 0
  /\ src_lang = "ja" /\ tgt_lang = "ja" /\ use_en_as_intermediate = FALSE
  /\ pc = "Tracker"
  /\ exc = "none"
  /\ returned = <<>>
  /\ temp_audio = "absent"
  /\ caption = [name |-> <<>>, entries |-> <<>>]
  /\ total \in TrackerTotals /\ current = 0 /\ notified = <<>>
  /\ event = FALSE
  /\ mon_pc = "none" /\ mon_k = 0
  /\ transcript = <<>> /\ segments = <<>> /\ i = 0
  /\ src_to_en_translator = NoModel
  /\ calls = <<>>
  /\ NoCli /\ Unlocked
  /\ cause = "none" /\ runs = NoRuns

\* ProgressTracker.update(progress) called as `name` with argument arg:
\* the value is stored, then the observer is told, and its display raises
\* when the total is 0
TrackerStore(name, arg, progress) ==
  /\ current' = Clamp(progress)
  /\ calls' = Append(calls, TrackerCall(name, arg, ~DisplayRaises))
  /\ IF DisplayRaises
       THEN pc' = "Failed" /\ exc' = "ZeroDivisionError"
       ELSE pc' = pc /\ exc' = exc

\* update(progress)
TrackerUpdate ==
  /\ pc = "Tracker" /\ Len(calls) < MaxOps
  /\ \E progress \in Progresses :
       /\ TrackerStore("update", progress, progress)
       /\ notified' = IF DisplayRaises THEN notified
                      ELSE Append(notified, Update(current', "main"))
  /\ UNCHANGED << inputs, cli, cause, runs, locking, returned, temp_audio, caption, total, event, monitor, pipeline >>

\* increment(amount): self.update(self.current + amount)
TrackerIncrement ==
  /\ pc = "Tracker" /\ Len(calls) < MaxOps
  /\ \E amount \in Amounts :
       /\ TrackerStore("increment", amount, current + amount)
       /\ notified' = IF DisplayRaises THEN notified
                      ELSE Append(notified, Update(current', "main"))
  /\ UNCHANGED << inputs, cli, cause, runs, locking, returned, temp_audio, caption, total, event, monitor, pipeline >>

\* complete(): self.update(self.total), then on_complete of the observer
TrackerComplete ==
  /\ pc = "Tracker" /\ Len(calls) < MaxOps
  /\ TrackerStore("complete", 0, total)
  /\ notified' = IF DisplayRaises THEN notified
                 ELSE notified \o << Update(current', "main"), Complete("main") >>
  /\ UNCHANGED << inputs, cli, cause, runs, locking, returned, temp_audio, caption, total, event, monitor, pipeline >>

NextTracker == TrackerUpdate \/ TrackerIncrement \/ TrackerComplete

TrackerSpec == InitTracker /\ [][NextTracker]_vars

\* ---------------------------------------- ProgressTracker.update, by threads
\* The threads of Threads calling update(progress, message) on one tracker
\* with NumObservers ConsoleProgressObservers of the tracker's total
\* registered, each statement of update a step:
\* the call, `with self._lock`, the assignment of self.current, one
\* on_progress_update per observer, and the release of the lock on the way
\* out, by return or by an exception of an observer.
NumObservers == 2
UpdateProgresses == { 3, 7 }
Messages == { "", "m" }

\* an entry of notified: on_progress_update(value, message) called by
\* thread who on the observer registered as number n
Notify(value, message, who, n) ==
  [kind |-> "update", value |-> value, message |-> message, by |-> who, to |-> n]

\* the calls of update begun so far
Begun == Len(calls) + Cardinality({ t \in Threads : threads[t].at \notin { "out", "raised" } })

InitUpdate ==
  /\ video_exists = FALSE /\ file_size = 0
  /\ src_lang = "ja" /\ tgt_lang = "ja" /\ use_en_as_intermediate = FALSE
  /\ pc = "Update"
  /\ exc = "none"
  /\ returned = <<>>
  /\ temp_audio = "absent"
  /\ caption = [name |-> <<>>, entries |-> <<>>]
  /\ total \in TrackerTotals /\ current = 0 /\ notified = <<>>
  /\ event = FALSE
  /\ mon_pc = "none" /\ mon_k = 0
  /\ transcript = <<>> /\ segments = <<>> /\ i = 0
  /\ src_to_en_translator = NoModel
  /\ calls = <<>>
  /\ NoCli /\ Unlocked
  /\ cause = "none" /\ runs = NoRuns

\* thread t calls update(progress, message)
UpdateCall(t) ==
  /\ threads[t].at = "out" /\ Begun < MaxOps
  /\ \E progress \in UpdateProgresses, message \in Messages :
       threads' = [threads EXCEPT ![t] = [at |-> "lock", progress |-> progress,
                                          message |-> message, observer |-> 0]]
  /\ UNCHANGED << inputs, cli, cause, runs, lock, pc, exc, returned, temp_audio, caption, tracker, event, monitor, pipeline, calls >>

\* with self._lock: entered when no thread holds the lock
UpdateAcquire(t) ==
  /\ threads[t].at = "lock" /\ lock = "none"
  /\ lock' = t
  /\ threads' = [threads EXCEPT ![t].at = "store"]
  /\ UNCHANGED << inputs, cli, cause, runs, pc, exc, returned, temp_audio, caption, tracker, event, monitor, pipeline, calls >>

\* self.current = min(progress, self.total)
UpdateStore(t) ==
  /\ threads[t].at = "store"
  /\ current' = Clamp(threads[t].progress)
  /\ threads' = [threads EXCEPT ![t].at = "notify", ![t].observer = 1]
  /\ UNCHANGED << inputs, cli, cause, runs, lock, pc, exc, returned, temp_audio, caption, total, notified, event, monitor, pipeline, calls >>

\* observer.on_progress_update(self.current, message) for the next observer
\* of the list; its display raises when the total is 0
UpdateNotify(t) ==
  /\ threads[t].at = "notify"
  /\ notified' = Append(notified, Notify(current, threads[t].message, t, threads[t].observer))
  /\ threads' = [threads EXCEPT
       ![t].at = IF DisplayRaises THEN "raise"
                 ELSE IF threads[t].observer = NumObservers THEN "release" ELSE "notify",
       ![t].observer = IF DisplayRaises \/ threads[t].observer = NumObservers
                         THEN threads[t].observer ELSE threads[t].observer + 1]
  /\ UNCHANGED << inputs, cli, cause, runs, lock, pc, exc, returned, temp_audio, caption, total, current, event, monitor, pipeline, calls >>

\* the with statement is left, the lock released: update returns, or the
\* observer's exception goes on to the caller and ends thread t
UpdateRelease(t) ==
  /\ threads[t].at \in { "release", "raise" }
  /\ lock' = IF lock = t THEN "none" ELSE lock
  /\ calls' = Append(calls, [TrackerCall("update", threads[t].progress, threads[t].at = "release")
                               EXCEPT !.text = << t, threads[t].message >>])
  /\ threads' = [threads EXCEPT ![t] = [Outside[t] EXCEPT
                   !.at = IF threads[t].at = "raise" THEN "raised" ELSE "out"]]
  /\ UNCHANGED << inputs, cli, cause, runs, pc, exc, returned, temp_audio, caption, tracker, event, monitor, pipeline >>

NextUpdate ==
  \E t \in Threads :
    \/ UpdateCall(t)
    \/ UpdateAcquire(t)
    \/ UpdateStore(t)
    \/ UpdateNotify(t)
    \/ UpdateRelease(t)

UpdateSpec == InitUpdate /\ [][NextUpdate]_vars

\* ------------------------------------------------------------------ claims
Count(name) == Cardinality({ k \in DOMAIN calls : calls[k].call = name })
Called(name) == \E k \in DOMAIN calls : calls[k].call = name
Failure(name) == \E k \in DOMAIN calls : calls[k].call = name /\ calls[k].raised
Returned == pc \in { "Done", "Failed" }

\* C1: whenever a run that started the extraction has returned or raised,
\* no file is left at the temporary audio path.
C1_NoTempAudioAfterRun == (Returned /\ Called("ffmpeg.run")) => temp_audio = "absent"

\* C2: once _extract_audio has returned the audio path (so the recognizer
\* has been called), the removal of the temporary file has not run before
\* the run ends and has run exactly once when it has ended, after success
\* and after a failure of transcription, translation or serialization, and
\* the exception that reaches the caller is the one the failing stage raised.
C2_CleanupExactlyOnce ==
  Called("transcribe") =>
    /\ Count("remove") = (IF Returned THEN 1 ELSE 0)
    /\ Returned => temp_audio = "absent"
    /\ pc = "Done" => exc = "none"
    /\ pc = "Failed" =>
         exc = (CASE Failure("transcribe") -> "TranscriptionError"
                  [] Failure("open") -> "OSError(open)"
                  [] OTHER -> "TranslatorLoadError")

C2_Witness ==
  /\ pc = "Failed" /\ exc = "TranslatorLoadError"
  /\ Count("remove") = 1 /\ temp_audio = "absent"

\* C8: when the video path does not exist the run fails with the
\* file-not-found error and nothing else has happened: no call was made
\* (no model selected or loaded, no extraction, no recognizer), no monitor
\* thread exists, no temporary file and no caption file was written.
C8_MissingVideoFailsFirst ==
  ~video_exists =>
    /\ pc \in { "Idle", "Failed" }
    /\ pc = "Failed" => exc = "FileNotFoundError"
    /\ calls = <<>>
    /\ mon_pc = "none"
    /\ temp_audio \in { "absent", "stale" }
    /\ caption.name = <<>>
    /\ returned = <<>>

C8_Witness == ~video_exists /\ pc = "Failed" /\ temp_audio = "stale"

DirectLoadFailed ==
  \E k \in DOMAIN calls :
    /\ calls[k].call = "pipeline" /\ calls[k].model = OpusMt(src_lang, tgt_lang)
    /\ calls[k].raised

\* C3: when the load of the direct translator has raised, exactly one next
\* path is taken: _translate_via_english and never _translate_to_english if
\* use_en_as_intermediate, otherwise _translate_to_english and never
\* _translate_via_english; the path is entered once, as the very next step.
C3_ExactlyOneNextPath ==
  DirectLoadFailed =>
    IF use_en_as_intermediate
      THEN /\ Count("_translate_to_english") = 0
           /\ Count("_translate_via_english") = (IF pc = "ViaEnglish" THEN 0 ELSE 1)
      ELSE /\ Count("_translate_via_english") = 0
           /\ Count("_translate_to_english") = (IF pc = "ToEnglish" THEN 0 ELSE 1)

C3_Witness ==
  /\ DirectLoadFailed /\ use_en_as_intermediate /\ pc = "Done"
  /\ Count("_translate_via_english") = 1 /\ Called("translate")

\* the translator calls made for segment j
CallsFor(j) == { k \in DOMAIN calls : calls[k].call = "translate" /\ calls[k].index = j }
Last(S) == CHOOSE k \in S : \A l \in S : l <= k
LoopPcs == { "DirectLoop", "ToEnglishLoop", "TwoStepLoop", "SourceToEnglishLoop" }

IsTranslate(c) == c.call = "translate"

\* the segments a translation stage has gone through
Processed ==
  IF pc \in LoopPcs THEN 1..(i - 1)
  ELSE IF pc = "Serialize" /\ src_lang # tgt_lang THEN DOMAIN segments
  ELSE {}

\* C4: in every translation stage the translator calls are made in segment
\* order; every segment gone through whose stripped text is not empty was
\* passed to the translator; a segment for which a call raised has the text
\* it had before the stage; every other segment has the text taken from the
\* answer to its own last call, whatever happened to the other segments;
\* the segments not yet reached are untouched.
C4_FailureContained ==
  /\ LET made == SelectSeq(calls, IsTranslate) IN
       \A k \in 1..(Len(made) - 1) : made[k].index <= made[k + 1].index
  /\ \A j \in Processed :
       /\ Strip(transcript[j].text) # <<>> =>
            \E k \in CallsFor(j) : calls[k].text = Strip(transcript[j].text)
       /\ segments[j].text =
            (IF CallsFor(j) = {} \/ \E k \in CallsFor(j) : calls[k].raised
               THEN transcript[j].text
               ELSE TranslatedText(calls[Last(CallsFor(j))].answer))
  /\ pc \in LoopPcs =>
       \A j \in DOMAIN segments : j >= i => segments[j] = transcript[j]

C4_Witness ==
  /\ pc = "Serialize" /\ Len(segments) = 2
  /\ \E k \in CallsFor(1) : calls[k].raised
  /\ segments[1].text = transcript[1].text
  /\ \E k \in CallsFor(2) : ~calls[k].raised /\ calls[k].answer # <<>>
  /\ segments[2].text # transcript[2].text

TranscribeSucceeded == Called("transcribe") /\ ~Failure("transcribe")

\* C5: when the languages differ and the recognizer has answered, the run
\* does not end before the caption file is opened, whatever translators
\* fail to load and whatever translator calls raise.
C5_TranslationNeverEndsRun ==
  (Returned /\ src_lang # tgt_lang /\ TranscribeSucceeded) => Called("open")

\* C6: with equal languages no translator is loaded or called and no
\* translation stage is entered, the segments stay those of the recognizer
\* and the caption file holds exactly their entries; with different
\* languages the chain is entered (the direct translator is loaded) as the
\* next step after a successful transcription.
C6_TranslateIffLanguagesDiffer ==
  /\ src_lang = tgt_lang =>
       /\ ~Called("pipeline") /\ ~Called("translate")
       /\ ~Called("_translate_via_english") /\ ~Called("_translate_to_english")
       /\ segments = transcript
       /\ caption.name # <<>> => caption.entries = Entries(transcript)
  /\ (src_lang # tgt_lang /\ TranscribeSucceeded /\ pc # "DirectLoad") =>
       \E k \in DOMAIN calls :
         calls[k].call = "pipeline" /\ calls[k].model = OpusMt(src_lang, tgt_lang)

C6_Witness ==
  /\ src_lang = tgt_lang /\ pc = "Done"
  /\ Len(transcript) = 2 /\ transcript[1].text = << " ", "j" >>
  /\ caption.entries = Entries(transcript)

\* C7: after a run that ended well with different languages, a failed load
\* of the direct translator and use_en_as_intermediate false, the caption
\* file is named with tgt_lang, every segment whose stripped text is not
\* empty was passed to a source-to-English translator, and every segment
\* whose call did not raise has as caption text the stripped English text
\* of the answer.
C7_EnglishOnlyFallback ==
  (pc = "Done" /\ src_lang # tgt_lang /\ DirectLoadFailed /\ ~use_en_as_intermediate) =>
    /\ caption.name = << "video", tgt_lang, "srt" >>
    /\ Len(caption.entries) = Len(transcript)
    /\ \A j \in DOMAIN transcript :
         /\ Strip(transcript[j].text) # <<>> => CallsFor(j) # {}
         /\ \A k \in CallsFor(j) :
              /\ calls[k].model \in { OpusMt(src_lang, "en"), OpusMt("mul", "en") }
              /\ ~calls[k].raised =>
                   caption.entries[j].text = Strip(TranslatedText(calls[k].answer))

C7_Witness ==
  /\ pc = "Done" /\ src_lang # tgt_lang /\ DirectLoadFailed /\ ~use_en_as_intermediate
  /\ \E j \in DOMAIN transcript :
       /\ \E k \in CallsFor(j) : ~calls[k].raised
       /\ caption.entries[j].text = << "en" >>
       /\ caption.entries[j].text # Strip(transcript[j].text)

\* the stage of generate_subtitles a call belongs to: 1 model selection and
\* loading, 2 extraction, 3 transcription, 4 translation, 5 serialization,
\* 6 cleanup
Stage(c) ==
  CASE c.call \in { "select_optimal_model", "load_model" } -> 1
    [] c.call \in { "getsize", "thread.start", "ffmpeg.run", "Popen", "communicate" } -> 2
    [] c.call = "transcribe" -> 3
    [] c.call = "open" -> 5
    [] c.call = "remove" -> 6
    [] OTHER -> 4

\* a call whose failure ends its stage with an error
Fatal(c) ==
  /\ c.raised
  /\ \/ c.call \in { "load_model", "Popen", "communicate", "transcribe", "open" }
     \/ c.call = "pipeline" /\ c.model = OpusMt("mul", "en")

\* C9: the calls of a run are made in stage order; after a call whose
\* failure ends its stage only the cleanup follows, and after a failed
\* primary extraction only extraction calls and the cleanup; the recognizer
\* is called only after an extraction attempt that succeeded, the
\* translation only with different languages after a successful
\* transcription, the serialization only after a successful transcription;
\* the caption path is returned exactly in Done, where the caption file is
\* written and no exception is pending; Failed carries an exception.
C9_StageOrder ==
  /\ \A k \in 1..(Len(calls) - 1) :
       /\ Stage(calls[k]) <= Stage(calls[k + 1])
       /\ Fatal(calls[k]) => Stage(calls[k + 1]) = 6
  /\ Called("transcribe") =>
       \E k \in DOMAIN calls :
         /\ calls[k].call \in { "ffmpeg.run", "communicate" } /\ ~calls[k].raised
         /\ calls[k + 1].call = "transcribe"
  /\ Called("pipeline") => (src_lang # tgt_lang /\ TranscribeSucceeded)
  /\ Called("open") => (TranscribeSucceeded /\ (src_lang # tgt_lang <=> Called("pipeline")))
  /\ Called("remove") => (calls[Len(calls)].call = "remove" /\ Returned)
  /\ returned # <<>> <=> pc = "Done"
  /\ pc = "Done" =>
       /\ exc = "none" /\ returned = caption.name /\ caption.name # <<>>
       /\ Called("open") /\ ~Failure("open") /\ Called("remove")
  /\ pc = "Failed" => exc # "none"

C9_Witness ==
  /\ pc = "Done" /\ src_lang # tgt_lang
  /\ Called("communicate") /\ Called("translate") /\ Called("remove")

ExtractionOver == Called("ffmpeg.run") /\ pc \notin ExtractPcs
ExtractionReturned == pc = "Transcribe" \/ Called("transcribe")

\* C10: the primary extraction is attempted once; when it has failed and
\* the extraction is over, the subprocess fallback has been started once;
\* the extraction has raised exactly if the primary and the fallback
\* attempt both failed, and has returned the audio path otherwise.
C10_FallbackAfterPrimaryFailure ==
  /\ Count("ffmpeg.run") <= 1
  /\ ExtractionOver =>
       /\ Failure("ffmpeg.run") => Count("Popen") = 1
       /\ ~ExtractionReturned <=>
            (Failure("ffmpeg.run") /\ (Failure("Popen") \/ Failure("communicate")))

IsComplete(n) == n.kind = "complete"
IsUpdate(n) == n.kind = "update"

\* the positions of the calling thread in _extract_audio after the finally
\* clause of lines 138-142
AfterFinalization ==
  { "AfterRun", "FallbackPopen", "MonitorSubprocess", "Communicate", "FallbackFinally" }

\* C11: in every execution of _extract_audio the observer is told
\* on_complete by the calling thread only and at most once, and exactly
\* once when the finally clause of the primary extraction has been left,
\* whether the primary extraction succeeded or the fallback is taken.
C11_CompleteExactlyOnce ==
  /\ \A k \in DOMAIN notified : IsComplete(notified[k]) => notified[k].by = "main"
  /\ Len(SelectSeq(notified, IsComplete)) <= 1
  /\ pc \in AfterFinalization => Len(SelectSeq(notified, IsComplete)) = 1

\* C12: the observer receives no on_progress_update after on_complete, and
\* on_complete directly follows the update to the total made by complete().
C12_NoUpdateAfterComplete ==
  \A k \in DOMAIN notified :
    IsComplete(notified[k]) =>
      /\ k > 1 /\ notified[k - 1] = Update(total, "main")
      /\ \A l \in DOMAIN notified : l > k => ~IsUpdate(notified[l])

\* C13: after any sequence of update, increment and complete calls the
\* tracker's current value and every value sent to the observer lie in
\* the interval from 0 to total.
C13_ValueWithinRange ==
  /\ 0 <= current /\ current <= total
  /\ \A k \in DOMAIN notified :
       IsUpdate(notified[k]) => (0 <= notified[k].value /\ notified[k].value <= total)

\* C14: no call of complete() raises, the first or a later one; after each
\* the current value is the total and the observer has been told the
\* update to the total and then on_complete, once per call.
C14_CompleteTwice ==
  /\ ~Failure("complete")
  /\ Len(SelectSeq(notified, IsComplete)) = Count("complete")
  /\ (calls # <<>> /\ calls[Len(calls)].call = "complete") =>
       /\ current = total
       /\ Len(notified) >= 2
       /\ SubSeq(notified, Len(notified) - 1, Len(notified))
            = << Update(total, "main"), Complete("main") >>

\* C15: on every path through the translation chain a segment whose text
\* was a non-empty string before translation has a non-empty text after,
\* whatever the translators returned or raised.
C15_TextStaysNonEmpty ==
  \A j \in DOMAIN segments : transcript[j].text # <<>> => segments[j].text # <<>>

Written == pc = "Cleanup" /\ Called("open") /\ ~Failure("open")

\* C16: when _generate_subtitle_file has written the file for N segments
\* (N = 0 and empty texts included) the file holds exactly N entries, the
\* k-th with index k, the formatted start and end of the k-th segment and
\* its stripped text, and nothing of the segments was changed.
C16_EntriesNumbered ==
  Written =>
    /\ caption.name = output_srt_path
    /\ Len(caption.entries) = Len(segments)
    /\ segments = transcript
    /\ \A k \in DOMAIN caption.entries :
         caption.entries[k] =
           [index |-> k, start |-> _format_timestamp(segments[k].start),
            end |-> _format_timestamp(segments[k].end),
            text |-> Strip(segments[k].text)]

C16_Witness ==
  /\ Written /\ Len(segments) = 2
  /\ segments[1].text = <<>> /\ segments[2].text = << " ", "j" >>
  /\ caption.entries[2].index = 2 /\ caption.entries[2].text = << "j" >>

\* HH:MM:SS,mmm of a time in whole milliseconds, by integer division
ExactTimestamp(ms) ==
  Padded(ms \div 3600000, 2) \o << ":" >> \o Padded((ms \div 60000) % 60, 2) \o << ":" >>
    \o Padded((ms \div 1000) % 60, 2) \o << "," >> \o Padded(ms % 1000, 3)

\* C17: every time written to the caption file, given in whole
\* milliseconds t, reads HH:MM:SS,mmm with HH = t div 3600000 on at least
\* two digits, MM = (t div 60000) mod 60, SS = (t div 1000) mod 60 and
\* mmm = t mod 1000.
C17_TimestampExact ==
  Written =>
    \A k \in DOMAIN caption.entries :
      /\ caption.entries[k].start = ExactTimestamp(segments[k].start)
      /\ caption.entries[k].end = ExactTimestamp(segments[k].end)

Blank(t) == Strip(t) = <<>>

\* C18: a segment whose text is empty or only whitespace is passed to no
\* translator in any stage and keeps exactly the text it had; the text a
\* stage takes from a segment for a translator is never blank.
C18_BlankNeverTranslated ==
  /\ \A j \in DOMAIN transcript :
       Blank(transcript[j].text) =>
         (CallsFor(j) = {} /\ segments[j].text = transcript[j].text)
  /\ \A k \in DOMAIN calls :
       (IsTranslate(calls[k]) /\ calls[k].model # OpusMt("en", tgt_lang)) =>
         ~Blank(calls[k].text)

C18_Witness ==
  /\ pc = "Done" /\ Len(transcript) = 2
  /\ transcript[1].text = << " " >> /\ segments[1].text = << " " >>
  /\ CallsFor(1) = {} /\ CallsFor(2) # {}
  /\ segments[2].text # transcript[2].text

\* the English-to-target translator was loaded / its load raised
TgtLoaded ==
  \E k \in DOMAIN calls :
    /\ calls[k].call = "pipeline" /\ calls[k].model = OpusMt("en", tgt_lang)
    /\ ~calls[k].raised
TgtLoadFailed ==
  \E k \in DOMAIN calls :
    /\ calls[k].call = "pipeline" /\ calls[k].model = OpusMt("en", tgt_lang)
    /\ calls[k].raised

First(S) == CHOOSE k \in S : \A l \in S : k <= l

\* C19: with both hop translators loaded, the calls made for a segment are
\* the first hop on its stripped text and, if that answered, the second hop
\* on the first hop's result; the segment's text is the second hop's result
\* if both answered and the original text otherwise, so never the English
\* text of the first hop.
C19_TwoHopsOrOriginal ==
  TgtLoaded =>
    \A j \in DOMAIN segments :
      LET cs == CallsFor(j) IN
      IF cs = {} THEN segments[j].text = transcript[j].text
      ELSE LET hop1 == calls[First(cs)]
               hop2 == calls[Last(cs)] IN
           /\ hop1.model = src_to_en_translator
           /\ hop1.text = Strip(transcript[j].text)
           /\ IF hop1.raised
                THEN Cardinality(cs) = 1 /\ segments[j].text = transcript[j].text
                ELSE /\ Cardinality(cs) = 2
                     /\ hop2.model = OpusMt("en", tgt_lang)
                     /\ hop2.text = TranslatedText(hop1.answer)
                     /\ segments[j].text =
                          (IF hop2.raised THEN transcript[j].text
                           ELSE TranslatedText(hop2.answer))

C19_Witness ==
  /\ pc = "Done" /\ TgtLoaded /\ Len(segments) = 2
  /\ Cardinality(CallsFor(1)) = 2 /\ calls[Last(CallsFor(1))].raised
  /\ calls[First(CallsFor(1))].answer = << << "en", " " >> >>
  /\ segments[1].text = transcript[1].text
  /\ Cardinality(CallsFor(2)) = 2 /\ segments[2].text = << "zh", " " >>

\* the segments the source-to-English loop of lines 390-405 has gone through
ThroughEnglishOnly ==
  IF pc = "SourceToEnglishLoop" THEN 1..(i - 1) ELSE DOMAIN segments

\* C20: when the load of the English-to-target translator has raised, no
\* exception of the stage is in flight, no other translator is loaded and
\* no other stage entered afterwards, every translator call goes to the
\* source-to-English translator, and every segment gone through whose text
\* is not blank was passed to it once and has the English text of the
\* answer, or its original text if the call raised.
C20_DegradeToEnglishOnly ==
  TgtLoadFailed =>
    /\ pc \in { "SourceToEnglishLoop", "Serialize", "Cleanup", "Done", "Failed" }
    /\ exc \in { "none", "OSError(open)" }
    /\ ~Called("_translate_to_english") /\ Count("_translate_via_english") = 1
    /\ \A k \in DOMAIN calls :
         /\ (calls[k].call = "pipeline" /\ calls[k].model = OpusMt("en", tgt_lang)) =>
              \A l \in DOMAIN calls : l > k => calls[l].call # "pipeline"
         /\ IsTranslate(calls[k]) =>
              /\ calls[k].model = src_to_en_translator
              /\ src_to_en_translator \in { OpusMt(src_lang, "en"), OpusMt("mul", "en") }
    /\ \A j \in ThroughEnglishOnly :
         IF Blank(transcript[j].text)
           THEN CallsFor(j) = {}
           ELSE /\ Cardinality(CallsFor(j)) = 1
                /\ LET c == calls[First(CallsFor(j))] IN
                     segments[j].text =
                       (IF c.raised THEN transcript[j].text ELSE TranslatedText(c.answer))

C20_Witness ==
  /\ pc = "Done" /\ TgtLoadFailed /\ Len(segments) = 2
  /\ segments[1].text = << "en", " " >> /\ caption.entries[1].text = << "en" >>
  /\ CallsFor(2) # {} /\ calls[First(CallsFor(2))].raised
  /\ segments[2].text = transcript[2].text
DirectLoaded ==
  \E k \in DOMAIN calls :
    /\ calls[k].call = "pipeline" /\ calls[k].model = OpusMt(src_lang, tgt_lang)
    /\ ~calls[k].raised

\* C21: when the direct translator has been loaded, no English stage is
\* entered and no other translator loaded or called in the run, also when
\* every translator call raises; when all of them raised, the segments
\* have their original text.
C21_DirectSuccessEndsChain ==
  DirectLoaded =>
    /\ ~Called("_translate_via_english") /\ ~Called("_translate_to_english")
    /\ Count("pipeline") = 1
    /\ pc \in { "DirectLoop", "Serialize", "Cleanup", "Done", "Failed" }
    /\ \A k \in DOMAIN calls :
         IsTranslate(calls[k]) => calls[k].model = OpusMt(src_lang, tgt_lang)
    /\ (\A k \in DOMAIN calls : IsTranslate(calls[k]) => calls[k].raised) =>
         segments = transcript

C21_Witness ==
  /\ pc = "Done" /\ DirectLoaded /\ Len(segments) = 2
  /\ Count("translate") = 2
  /\ \A k \in DOMAIN calls : IsTranslate(calls[k]) => calls[k].raised
  /\ segments = transcript
ByMonitor(n) == n.by = "monitor"

\* C22: every value an update of the monitor stores and sends to the
\* observer is at most 90% of the tracker's total, so below the total.
C22_MonitorBelowTotal ==
  \A k \in DOMAIN notified :
    (IsUpdate(notified[k]) /\ ByMonitor(notified[k])) =>
      10 * notified[k].value <= 9 * total

\* C23: the values the observer receives through on_progress_update
\* within one extraction never decrease.
C23_ValuesNeverDecrease ==
  LET sent == SelectSeq(notified, IsUpdate) IN
  \A k \in 1..(Len(sent) - 1) : sent[k].value <= sent[k + 1].value

MonitorAlive == mon_pc \in { "check", "update" }
TimeIsUp == event \/ mon_k * UpdateInterval >= estimated_time

\* C24: once the completion event is set or the estimated time has passed,
\* the monitor's loop check starts no further iteration, so at most the
\* update already begun is made, and the thread ends; it needs no step of
\* the calling thread for that.
C24_MonitorTerminates ==
  /\ [][(mon_pc = "check" /\ TimeIsUp) => mon_pc' \in { "check", "done" }]_vars
  /\ (MonitorAlive /\ TimeIsUp) ~> (mon_pc = "done")

C24_Witness ==
  /\ pc \in ExtractPcs /\ event /\ mon_pc = "done"
  /\ mon_k >= 1 /\ mon_k * UpdateInterval < estimated_time

\* C25: a monitor thread exists only while the calling thread is in
\* ffmpeg.run, the setting of the event or the join of lines 131-141.
C25_MonitorOnlyDuringExtraction ==
  MonitorAlive => pc \in { "FfmpegRun", "SetEvent", "Join" }

\* C27: while an extraction attempt of the call is still to come or under
\* way (the subprocess fallback after a failed primary extraction), the
\* observer has not been told on_complete.
C27_CompleteAfterLastAttempt ==
  pc \in { "FallbackPopen", "MonitorSubprocess", "Communicate" } =>
    SelectSeq(notified, IsComplete) = <<>>
IsSuccess(m) == m.stream = "stdout" /\ Head(m.text) = "Success"
IsError(m) == m.stream = "stderr" /\ Head(m.text) = "Error"

\* C26: the command line prints nothing before it ends; it ends with one
\* error message on stderr and exit status 1 when the video file is missing
\* or generate_subtitles raised, whatever the exception, and with the one
\* success message naming the returned caption path and status 0 when
\* generate_subtitles returned.
C26_FatalExitsWithError ==
  /\ pc # "Exit" => (exit_status = -1 /\ printed = <<>>)
  /\ pc = "Exit" =>
       /\ Len(printed) = 1
       /\ IF ~video_exists \/ exc # "none"
            THEN /\ exit_status = 1 /\ IsError(printed[1])
                 /\ returned = <<>>
                 /\ video_exists => printed[1].text = << "Error", exc >>
            ELSE /\ exit_status = 0 /\ IsSuccess(printed[1])
                 /\ returned # <<>> /\ printed[1].text = << "Success" >> \o returned
                 /\ caption.name = returned

C26_Witness ==
  /\ pc = "Exit" /\ exit_status = 1 /\ exc = "RuntimeError"
  /\ Failure("communicate") /\ IsError(printed[1])
IsTranscribe(c) == c.call = "transcribe"

\* C29: the recognizer is called at most once in a run, with the declared
\* source language and the task "transcribe"; when the call has raised,
\* its exception is the one the run ends with, and no translator is loaded
\* or called and no caption file opened afterwards.
C29_RecognizerOnce ==
  /\ Len(SelectSeq(calls, IsTranscribe)) <= 1
  /\ \A k \in DOMAIN calls :
       IsTranscribe(calls[k]) => calls[k].text = << src_lang, "transcribe" >>
  /\ Failure("transcribe") =>
       /\ pc \in { "Cleanup", "Failed" } /\ exc = "TranscriptionError"
       /\ ~Called("pipeline") /\ ~Called("translate") /\ ~Called("open")
       /\ returned = <<>>

C29_Witness ==
  /\ pc = "Failed" /\ exc = "TranscriptionError"
  /\ Count("transcribe") = 1 /\ Failure("transcribe") /\ src_lang # tgt_lang

\* C30: on every path through the translation chain the segments are as
\* many as the recognizer returned, in the same order, each with the start
\* and the end it had.
C30_OnlyTextWritten ==
  /\ Len(segments) = Len(transcript)
  /\ \A j \in DOMAIN segments :
       segments[j].start = transcript[j].start /\ segments[j].end = transcript[j].end

C30_Witness ==
  /\ pc = "Done" /\ Len(segments) = 2 /\ Called("_translate_via_english")
  /\ segments[2].text # transcript[2].text
  /\ segments[2].start = 1500 /\ segments[2].end = 2750
InUpdate(t) == threads[t].at \in { "store", "notify", "release", "raise" }
NotInUpdate(t) == threads[t].at \in { "out", "raised" }

\* C28: every finished call update(v, m) has called on_progress_update once
\* on each registered observer, in registration order, with the clamped
\* value and m, and with no notification of another call in between; the
\* thread inside update holds the lock; when no call is under way the
\* stored value is the one notified last.
C28_UpdateNotifiesAllInOrder ==
  /\ \A j \in DOMAIN calls, n \in 1..NumObservers :
       /\ (j - 1) * NumObservers + n \in DOMAIN notified
       /\ notified[(j - 1) * NumObservers + n]
            = Notify(Clamp(calls[j].index), calls[j].text[2], calls[j].text[1], n)
  /\ \A t \in Threads : InUpdate(t) => lock = t
  /\ (\A t \in Threads : NotInUpdate(t)) =>
       /\ Len(notified) = NumObservers * Len(calls)
       /\ notified # <<>> => current = notified[Len(notified)].value
IsLoadOf(c, m) == c.call = "pipeline" /\ c.model = m
Specific == OpusMt(src_lang, "en")
Generic == OpusMt("mul", "en")
EnglishRoutes == { "_translate_via_english", "_translate_to_english" }

\* C31: an English route begins by loading the source-specific translator
\* to English; the generic one is loaded only right after that load has
\* raised; each of the two is loaded at most once in a run; and every call
\* of a translator to English is made on one and the same translator, the
\* one of the two whose load succeeded.
C31_SpecificThenGeneric ==
  /\ \A k \in DOMAIN calls :
       /\ calls[k].call \in EnglishRoutes =>
            k + 1 \in DOMAIN calls /\ IsLoadOf(calls[k + 1], Specific)
       /\ IsLoadOf(calls[k], Specific) =>
            k > 1 /\ calls[k - 1].call \in EnglishRoutes
       /\ IsLoadOf(calls[k], Generic) =>
            k > 1 /\ IsLoadOf(calls[k - 1], Specific) /\ calls[k - 1].raised
       /\ (IsTranslate(calls[k]) /\ calls[k].model \in { Specific, Generic }) =>
            /\ calls[k].model = src_to_en_translator
            /\ \E l \in 1..(k - 1) : IsLoadOf(calls[l], calls[k].model) /\ ~calls[l].raised
  /\ Cardinality({ k \in DOMAIN calls : IsLoadOf(calls[k], Specific) }) <= 1
  /\ Cardinality({ k \in DOMAIN calls : IsLoadOf(calls[k], Generic) }) <= 1
  /\ src_to_en_translator # NoModel =>
       \E k \in DOMAIN calls : IsLoadOf(calls[k], src_to_en_translator) /\ ~calls[k].raised

C31_Witness ==
  /\ pc = "Done" /\ Called("_translate_via_english")
  /\ src_to_en_translator = Generic
  /\ Cardinality({ k \in DOMAIN calls : IsTranslate(calls[k]) /\ calls[k].model = Generic }) = 2
Launched == Len(calls') = Len(calls) + 1 /\ calls'[Len(calls')].call = "Popen"

\* C32: the subprocess of the fallback is launched only with the input file
\* found (the audio path is absolute by construction); when the file is not
\* found the fallback launches nothing and raises ValueError, which
\* _extract_audio turns into its RuntimeError with that ValueError as cause.
C32_ValidatedBeforeLaunch ==
  /\ [][Launched => (pc = "FallbackPopen" /\ video_exists)]_vars
  /\ [][(pc = "FallbackPopen" /\ pc' # pc /\ ~video_exists) =>
          (calls' = calls /\ exc' = "ValueError" /\ pc' = "FallbackFinally")]_vars
  /\ [][(pc = "FallbackFinally" /\ pc' # pc /\ exc = "ValueError") =>
          (pc' = "Failed" /\ exc' = "RuntimeError" /\ cause' = "ValueError"
             /\ ~Called("Popen") /\ calls' = calls)]_vars
  /\ [](cause = "ValueError" => (pc = "Failed" /\ ~Called("Popen")))

C32_Witness ==
  /\ pc = "Failed" /\ exc = "RuntimeError" /\ cause = "ValueError"
  /\ ~video_exists /\ Called("ffmpeg.run") /\ ~Called("Popen")
FallbackPcs == { "FallbackPopen", "MonitorSubprocess", "Communicate" }
SubprocessRuns == pc \in { "MonitorSubprocess", "Communicate" }

\* C33: the event is set whenever the calling thread is in the subprocess
\* fallback; _monitor_subprocess_progress sends nothing and hands over to
\* the wait for the subprocess at once.
C33_EventSetZeroIterations ==
  /\ [](pc \in FallbackPcs => event)
  /\ [][(pc = "MonitorSubprocess" /\ pc' # pc) =>
          (pc' = "Communicate" /\ notified' = notified /\ current' = current)]_vars

\* C33: the above, and no on_progress_update reaches an observer between
\* the launch of the fallback subprocess and the end of the wait for it.
C33_NoUpdateDuringFallback ==
  /\ C33_EventSetZeroIterations
  /\ [][SubprocessRuns => notified' = notified]_vars
\* C34: while a run has extracted its audio and not yet handed it to the
\* recognizer, the file at the audio path is the one it extracted; and what
\* a run's recognizer was given is that run's own audio.
C34_AudioOwnedByOneRun ==
  \A r \in Runs :
    /\ runs[r].at = "Transcribe" => (temp_audio = "audio" /\ runs[r].mine)
    /\ runs[r].heard \in { "none", "own" }
\* C35: the finalization of the progress display never raises, whatever the
\* file size: when the calling thread leaves the finally clause of the
\* primary attempt, the exception under way is the one ffmpeg.run ended
\* with, or none if it ended with none, so that a successful extraction
\* returns and one failed with ffmpeg.Error goes on to the fallback.
C35_FinalizationKeepsOutcome ==
  /\ exc # "ZeroDivisionError"
  /\ pc = "AfterRun" =>
       LET run == calls[Len(calls)]
       IN /\ run.call = "ffmpeg.run"
          /\ run.raised <=> exc \in { "ffmpeg.Error", "OSError(ffmpeg)" }
          /\ ~run.raised <=> exc = "none"
====
